---- MODULE Spec2Model ----
(***************************************************************************)
(* A model of LiteralCloudService: Clouds/CloudSource.py (CloudSource,      *)
(* get_cloud_sources, delete_file, archive_images, get_from_all_sources)    *)
(* and the script get_sources.py.                                           *)
(*                                                                          *)
(* Instants are datetime values counted in ticks of 1/SubSec second; the    *)
(* field operators (Day, Hour, ...) are the datetime fields.  Strings that  *)
(* the code takes apart (time-of-day, name) are sequences of characters.    *)
(***************************************************************************)
EXTENDS Integers, Sequences, FiniteSets, TLC

----------------------------------------------------------------------------
(* Bounds of the model *)

\* the largest number of scheduled sources (definition x time pairs) in a config
MaxSources == 2
\* the clock is read on days 0..MaxDay while targets are computed
MaxDay == 0
\* sub-second resolution of the clock (datetime has 10^6 microseconds)
SubSec == 2

----------------------------------------------------------------------------
(* datetime *)

TicksPerSecond == SubSec
TicksPerMinute == 60 * TicksPerSecond
TicksPerHour == 60 * TicksPerMinute
TicksPerDay == 24 * TicksPerHour

MkInstant(day, hour, minute, second, micro) ==
    day * TicksPerDay + hour * TicksPerHour + minute * TicksPerMinute
        + second * TicksPerSecond + micro

Day(t) == t \div TicksPerDay
Hour(t) == (t % TicksPerDay) \div TicksPerHour
Minute(t) == (t % TicksPerHour) \div TicksPerMinute
Second(t) == (t % TicksPerMinute) \div TicksPerSecond
Micro(t) == t % TicksPerSecond

\* datetime.replace(hour=, minute=, second=): the date and the microsecond stay
Replace(t, hour, minute, second) ==
    MkInstant(Day(t), hour, minute, second, Micro(t))

\* datetime.timedelta(days=n)
TimedeltaDays(n) == n * TicksPerDay

----------------------------------------------------------------------------
(* str *)

Digits == <<"0", "1", "2", "3", "4", "5", "6", "7", "8", "9">>

DigitValue(c) == (CHOOSE k \in 1..10 : Digits[k] = c) - 1

\* int(s) of a string of decimal digits
RECURSIVE ParseInt(_)
ParseInt(s) ==
    IF Len(s) = 0 THEN 0
    ELSE 10 * ParseInt(SubSeq(s, 1, Len(s) - 1)) + DigitValue(s[Len(s)])

\* s.split(sep)
RECURSIVE SplitFrom(_, _, _, _)
SplitFrom(s, sep, k, acc) ==
    IF k > Len(s) THEN <<acc>>
    ELSE IF s[k] = sep THEN <<acc>> \o SplitFrom(s, sep, k + 1, <<>>)
    ELSE SplitFrom(s, sep, k + 1, Append(acc, s[k]))

Split(s, sep) == SplitFrom(s, sep, 1, <<>>)

\* s.replace(old, "") for a one-character old
RECURSIVE RemoveChar(_, _)
RemoveChar(s, old) ==
    IF Len(s) = 0 THEN <<>>
    ELSE IF Head(s) = old THEN RemoveChar(Tail(s), old)
    ELSE <<Head(s)>> \o RemoveChar(Tail(s), old)

----------------------------------------------------------------------------
(* The inputs: the config file and the clock *)

\* the time_list entries of the config ("HH:MM")
TimeStrings == { <<"0", "9", ":", "0", "0">>, <<"1", "0", ":", "0", "0">> }

\* the names of the config's sources
Names == { <<"c", "a", "m">> }

\* the times of day at which the clock is read: every second 0 of a configured
\* time of day at every sub-second, and 09:30:00 between the two
TodPoints ==
    { MkInstant(0, ParseInt(SubSeq(t, 1, 2)), ParseInt(SubSeq(t, 4, 5)), 0, u) :
        t \in TimeStrings, u \in 0..(SubSec - 1) }
    \cup { MkInstant(0, 9, 30, 0, 0) }

\* names and times of day ("HH:MM") for which the output paths are compared:
\* names that hold digits and the separator of the display form, times made of
\* the same digits
PathNames == { <<"c", "a", "m">>, <<"0", "-", "c", "a", "m">>, <<"0", "0", "-", "c", "a", "m">> }

PathTimes == TimeStrings \cup { <<"0", "0", ":", "0", "9">>, <<"0", "0", ":", "0", "0">> }

\* the values datetime.utcnow() returns while the targets are computed
ScheduleClock == { TimedeltaDays(d) + p : d \in 0..MaxDay, p \in TodPoints }

\* the values datetime.utcnow() returns at all (a target lies up to a day later)
ClockValues == { TimedeltaDays(d) + p : d \in 0..(MaxDay + 1), p \in TodPoints }

Days == 0..(MaxDay + 1)

\* one entry of the config's "CloudSources": name, url and crop_coords play no
\* part in the schedule; the url's and the image's behaviour is the environment's
SourceDefinitions ==
    [ name : Names,
      time_list : UNION { [1..n -> TimeStrings] : n \in 1..MaxSources } ]

RECURSIVE TotalTimes(_)
TotalTimes(defs) ==
    IF Len(defs) = 0 THEN 0
    ELSE Len(Head(defs).time_list) + TotalTimes(Tail(defs))

Configs ==
    { c \in UNION { [1..n -> SourceDefinitions] : n \in 0..MaxSources } :
        TotalTimes(c) <= MaxSources }

----------------------------------------------------------------------------
(* CloudSource *)

\* the value of an attribute that was never assigned
Unset == -1

\* CloudSource.__init__ : name, url, crop_coords and time are set, target_time
\* is not.  id is the place in the enumeration of the config, now is the
\* argument of the last set_target_time (both are kept for the properties)
CloudSource(name, time, id) ==
    [ id |-> id, name |-> name, time |-> time, target_time |-> Unset, now |-> Unset ]

\* a display form that leaves the time of day out
StrNameOnly(source) == source.name

\* CloudSource.__str__
Str(source) == RemoveChar(source.time, ":") \o <<"-">> \o source.name

\* CloudSource.set_target_time, wrongly adding the day when the target is now
SetTargetTimeNotAfter(time, now) ==
    LET hour == ParseInt(Split(time, ":")[1])
        minute == ParseInt(Split(time, ":")[2])
        target_time == Replace(now, hour, minute, 0)
    IN  IF target_time <= now THEN target_time + TimedeltaDays(1) ELSE target_time

\* CloudSource.set_target_time: the value it stores and returns
SetTargetTime(time, now) ==
    LET hour == ParseInt(Split(time, ":")[1])
        minute == ParseInt(Split(time, ":")[2])
        target_time == Replace(now, hour, minute, 0)
    IN  IF target_time < now THEN target_time + TimedeltaDays(1) ELSE target_time

\* get_cloud_sources: one CloudSource per definition and time, in the order of
\* the config
RECURSIVE ExpandTimes(_, _, _)
ExpandTimes(name, time_list, first_id) ==
    IF Len(time_list) = 0 THEN <<>>
    ELSE <<CloudSource(name, Head(time_list), first_id)>>
            \o ExpandTimes(name, Tail(time_list), first_id + 1)

RECURSIVE ExpandSources(_, _)
ExpandSources(defs, first_id) ==
    IF Len(defs) = 0 THEN <<>>
    ELSE ExpandTimes(Head(defs).name, Head(defs).time_list, first_id)
            \o ExpandSources(Tail(defs), first_id + Len(Head(defs).time_list))

GetCloudSources(config) == ExpandSources(config, 1)

----------------------------------------------------------------------------
(* list.sort(key = lambda x: x.target_time) *)

\* x is put behind every element whose key is not larger: the sort is stable
RECURSIVE InsertByTargetTime(_, _)
InsertByTargetTime(sorted, x) ==
    IF Len(sorted) = 0 THEN <<x>>
    ELSE IF Head(sorted).target_time <= x.target_time
         THEN <<Head(sorted)>> \o InsertByTargetTime(Tail(sorted), x)
         ELSE <<x>> \o sorted

\* x is put before the elements with the same key: the order of ties is turned
RECURSIVE InsertBeforeTies(_, _)
InsertBeforeTies(sorted, x) ==
    IF Len(sorted) = 0 THEN <<x>>
    ELSE IF Head(sorted).target_time < x.target_time
         THEN <<Head(sorted)>> \o InsertBeforeTies(Tail(sorted), x)
         ELSE <<x>> \o sorted

\* the key is the time of day, not the instant
RECURSIVE InsertByTimeOfDay(_, _)
InsertByTimeOfDay(sorted, x) ==
    IF Len(sorted) = 0 THEN <<x>>
    ELSE IF Head(sorted).target_time % TicksPerDay <= x.target_time % TicksPerDay
         THEN <<Head(sorted)>> \o InsertByTimeOfDay(Tail(sorted), x)
         ELSE <<x>> \o sorted

RECURSIVE SortUnstable(_)
SortUnstable(sources) ==
    IF Len(sources) = 0 THEN <<>>
    ELSE InsertBeforeTies(SortUnstable(SubSeq(sources, 1, Len(sources) - 1)),
                          sources[Len(sources)])

RECURSIVE SortByTimeOfDay(_)
SortByTimeOfDay(sources) ==
    IF Len(sources) = 0 THEN <<>>
    ELSE InsertByTimeOfDay(SortByTimeOfDay(SubSeq(sources, 1, Len(sources) - 1)),
                           sources[Len(sources)])

RECURSIVE SortByTargetTime(_)
SortByTargetTime(sources) ==
    IF Len(sources) = 0 THEN <<>>
    ELSE InsertByTargetTime(SortByTargetTime(SubSeq(sources, 1, Len(sources) - 1)),
                            sources[Len(sources)])

----------------------------------------------------------------------------
(* The file system: the working directory images/ and the backup directories *)

Directory == <<"images/", "current_downloads">>

\* get_image's default image_name: f"{directory}{str(self)}.png"
ImageName(source) == Directory \o Str(source) \o <<".png">>

AllPaths == { ImageName(CloudSource(n, t, 0)) : n \in Names, t \in TimeStrings }

\* what a path of images/ holds: nothing; a file left by an earlier run; a
\* directory; a partly written file (a download or a save that was cut short);
\* a complete download; the cropped image
Kinds == { "none", "stale", "dir", "partial", "raw", "cropped" }

\* os.path.exists
Exists(fs, path) == fs[path] /= "none"

\* delete_file that reports success without looking at what os.remove did
DeleteFileBlind(fs, path) ==
    IF Exists(fs, path)
    THEN { [ ret |-> TRUE, fs |-> fs ],
           [ ret |-> TRUE, fs |-> [fs EXCEPT ![path] = "none"] ] }
    ELSE { [ ret |-> TRUE, fs |-> fs ] }

\* delete_file without the os.path.exists test: os.remove of an absent path
\* raises FileNotFoundError, an OSError, and False is returned
DeleteFileNoExistsTest(fs, path) ==
    IF fs[path] \in { "none", "dir" }
    THEN { [ ret |-> FALSE, fs |-> fs ] }
    ELSE { [ ret |-> FALSE, fs |-> fs ],
           [ ret |-> TRUE, fs |-> [fs EXCEPT ![path] = "none"] ] }

\* delete_file: its return value and the file system it leaves.  os.remove of
\* a directory raises IsADirectoryError; of a file it succeeds or raises
\* OSError (permission denied): both are caught and reported as False
DeleteFile(fs, path) ==
    IF Exists(fs, path)
    THEN IF fs[path] = "dir"
         THEN { [ ret |-> FALSE, fs |-> fs ] }
         ELSE { [ ret |-> FALSE, fs |-> fs ],
                [ ret |-> TRUE, fs |-> [fs EXCEPT ![path] = "none"] ] }
    ELSE { [ ret |-> TRUE, fs |-> fs ] }

----------------------------------------------------------------------------
(* Exceptions *)

\* the base class of each exception class the pipeline meets
BaseOf(cls) ==
    CASE cls = "HTTPError" -> "URLError"
      [] cls = "ContentTooShortError" -> "URLError"
      [] cls = "URLError" -> "OSError"
      [] cls = "UnidentifiedImageError" -> "OSError"
      [] cls = "FileNotFoundError" -> "OSError"
      [] cls = "IsADirectoryError" -> "OSError"
      [] cls = "FileExistsError" -> "OSError"
      [] cls = "Error" -> "OSError"
      [] cls = "OSError" -> "Exception"
      [] cls = "ValueError" -> "Exception"
      [] cls = "SystemError" -> "Exception"
      [] cls = "AttributeError" -> "Exception"
      [] cls = "Exception" -> "BaseException"
      [] cls = "KeyboardInterrupt" -> "BaseException"
      [] OTHER -> "object"

\* isinstance(e, cls) for an exception e of class exc
RECURSIVE IsInstance(_, _)
IsInstance(exc, cls) ==
    IF exc = cls THEN TRUE
    ELSE IF exc = "BaseException" THEN FALSE
    ELSE IsInstance(BaseOf(exc), cls)

\* the except clauses of get_image's first try, without the last
DownloadHandlersNamedOnly == << "ValueError", "HTTPError", "ContentTooShortError" >>

\* the except clauses of get_image's first try (download), in order
DownloadHandlers == << "ValueError", "HTTPError", "ContentTooShortError", "Exception" >>

\* the except clauses of get_image's second try (open, crop, save), in order
ImageHandlers == << "UnidentifiedImageError", "FileNotFoundError", "SystemError", "Exception" >>

\* the first except clause that catches exc, 0 when none does
Handler(handlers, exc) ==
    IF \E k \in 1..Len(handlers) : IsInstance(exc, handlers[k])
    THEN CHOOSE k \in 1..Len(handlers) :
            /\ IsInstance(exc, handlers[k])
            /\ \A j \in 1..(k - 1) : ~IsInstance(exc, handlers[j])
    ELSE 0

\* what wget.download(url, image_name) may raise: a malformed url, an HTTP
\* error, short content, another transport fault
DownloadFaults == { "ValueError", "HTTPError", "ContentTooShortError", "URLError" }

\* wget.download: it returns ("none") or raises, and leaves at the path what
\* was there, a complete download (when it returns) or a partial one (when it
\* raises)
Download(fs, path) ==
    { [ raised |-> "none", fs |-> f ] :
        f \in { fs, [fs EXCEPT ![path] = IF fs[path] = "dir" THEN "dir" ELSE "raw"] } }
    \cup
    { [ raised |-> e, fs |-> f ] :
        e \in DownloadFaults,
        f \in { fs, [fs EXCEPT ![path] = IF fs[path] = "dir" THEN "dir" ELSE "partial"] } }

\* what Image.open, crop and save may raise: an unidentified image, a missing
\* file, a save or encode error, another fault
ImageFaults ==
    { "UnidentifiedImageError", "FileNotFoundError", "SystemError", "OSError",
      "IsADirectoryError" }

\* Image.open, crop and save of the file at the path: what is raised and what
\* the path holds then
CropAndSave(fs, path) ==
    CASE fs[path] = "none" ->
            { [ raised |-> "FileNotFoundError", fs |-> fs ] }
      [] fs[path] = "dir" ->
            { [ raised |-> "IsADirectoryError", fs |-> fs ] }
      [] OTHER ->
            { [ raised |-> "UnidentifiedImageError", fs |-> fs ],
              [ raised |-> "SystemError", fs |-> fs ],
              [ raised |-> "SystemError", fs |-> [fs EXCEPT ![path] = "partial"] ],
              [ raised |-> "OSError", fs |-> fs ],
              [ raised |-> "OSError", fs |-> [fs EXCEPT ![path] = "partial"] ],
              [ raised |-> "none", fs |-> [fs EXCEPT ![path] = "cropped"] ] }

\* the entries of images/ that os.listdir returns beside images_archive
Present(fs) == { p \in AllPaths : Exists(fs, p) }

\* what os.makedirs and shutil.move raise in archive_images
ArchiveFaults == { "FileExistsError", "Error" }

\* an except clause that catches only the failure of os.makedirs
ArchiveHandlersFileExistsOnly == << "FileExistsError" >>

\* the except clause of archive_images' try
ArchiveHandlers == << "Exception" >>

\* the try block of archive_images with the default backup_dir
\* images/images_archive/<today>: what it raises, and the working directory
\* and the backup directories it leaves.  os.makedirs raises FileExistsError
\* when the directory exists; else the entries that os.listdir returns before
\* images_archive are moved, and the move of images_archive into itself
\* raises shutil.Error.
ArchiveImages(fs, bk, today) ==
    IF bk[today].exists
    THEN { [ raised |-> "FileExistsError", images |-> fs, backup |-> bk ] }
    ELSE { [ raised |-> "Error",
             images |-> [p \in AllPaths |-> IF p \in moved THEN "none" ELSE fs[p]],
             backup |-> [bk EXCEPT ![today] =
                            [ exists |-> TRUE,
                              files |-> { <<p, fs[p]>> : p \in moved } ]] ] :
           moved \in SUBSET Present(fs) }

----------------------------------------------------------------------------
(* The state *)

VARIABLES
    entry,          \* the entry point that runs: get_from_all_sources or the script
    pc,             \* the place of the run in its code
    clock,          \* the value of the last datetime.utcnow() that the code uses (now)
    cloud_sources,  \* the list cloud_sources
    i,              \* the index (from 1) of the loop's source in cloud_sources
    images,         \* what each path of images/ holds
    backup,         \* the backup directory of each day, and its files
    calls,          \* the id of the source and the result of each get_image call
    call,           \* the running (or last) get_image call: its locals, and what
                    \* it met and left
    archives,       \* one record per archive_images call, in the order of the calls
    interrupted,    \* whether a KeyboardInterrupt was raised
    exc             \* the exception that ended the run, "none" when none did

vars == << entry, pc, clock, cloud_sources, i, images, backup, calls,
           call, archives, interrupted, exc >>

EntryPoints == { "get_from_all_sources", "get_sources" }

\* the places of the loop (the try block of the script)
LoopPlaces == { "loop", "sleep", "get", "download", "crop", "got" }

\* no get_image call was made yet
NoCall ==
    [ image_name |-> <<>>, at |-> 0, target_time |-> 0,
      before |-> "none", raised |-> "none", step |-> "none", deleted |-> TRUE,
      downloaded |-> FALSE, left |-> "none" ]

Init ==
    /\ entry \in EntryPoints
    /\ pc = "load"
    /\ clock = 0
    /\ cloud_sources = <<>>
    /\ i = 1
    /\ \E kind \in { "none", "stale", "dir" } : images = [p \in AllPaths |-> kind]
    /\ \E before \in { {}, {0} } :
          backup = [d \in Days |-> [ exists |-> d \in before, files |-> {} ]]
    /\ calls = <<>>
    /\ call = NoCall
    /\ archives = <<>>
    /\ interrupted = FALSE
    /\ exc = "none"

\* datetime.utcnow(): a value not before the last one
UtcNow(values) == { c \in values : c >= clock }

----------------------------------------------------------------------------
(* Loading and scheduling *)

\* cloud_sources = get_cloud_sources()
Load ==
    /\ pc = "load"
    /\ \E config \in Configs : cloud_sources' = GetCloudSources(config)
    /\ i' = 1
    /\ pc' = IF entry = "get_from_all_sources" /\ Len(cloud_sources') > 0
             THEN "target_times" ELSE "sort"
    /\ UNCHANGED << entry, clock, images, backup, calls, call, archives,
                    interrupted, exc >>

\* one round of get_from_all_sources' first loop: now = utcnow();
\* source.set_target_time(now)
TargetTimes ==
    /\ pc = "target_times"
    /\ i <= Len(cloud_sources)
    /\ \E now \in UtcNow(ScheduleClock) :
          /\ clock' = now
          /\ cloud_sources' =
                [cloud_sources EXCEPT
                    ![i].target_time = SetTargetTime(cloud_sources[i].time, now),
                    ![i].now = now]
    /\ i' = i + 1
    /\ pc' = IF i = Len(cloud_sources) THEN "sort" ELSE "target_times"
    /\ UNCHANGED << entry, images, backup, calls, call, archives, interrupted, exc >>

\* cloud_sources.sort(key = lambda x: x.target_time): the key of a source whose
\* target_time was never set raises AttributeError, which nothing catches
Sort ==
    /\ pc = "sort"
    /\ IF \E k \in 1..Len(cloud_sources) : cloud_sources[k].target_time = Unset
       THEN /\ pc' = "crashed"
            /\ exc' = "AttributeError"
            /\ UNCHANGED cloud_sources
       ELSE /\ cloud_sources' = SortByTargetTime(cloud_sources)
            /\ pc' = "loop"
            /\ UNCHANGED exc
    /\ i' = 1
    /\ UNCHANGED << entry, clock, images, backup, calls, call, archives, interrupted >>

----------------------------------------------------------------------------
(* The loop over the sorted sources *)

\* the instants at which time.sleep(delta) may return when called at start
WakeEarly(start, d) == { c \in ClockValues : c >= start }

WakeTimes(start, d) == { c \in ClockValues : c >= start + d }

\* delta = source.target_time - now, in ticks
Delta(source, now) == source.target_time - now

\* the head of one round: now = utcnow(); delta = source.target_time - now;
\* the test delta.total_seconds() > 0
LoopHead ==
    /\ pc = "loop"
    /\ i <= Len(cloud_sources)
    /\ \E now \in UtcNow(ClockValues) :
          /\ clock' = now
          /\ pc' = IF Delta(cloud_sources[i], now) > 0 THEN "sleep" ELSE "get"
    /\ UNCHANGED << entry, cloud_sources, i, images, backup, calls, call, archives,
                    interrupted, exc >>

\* time.sleep(delta.total_seconds())
Sleep ==
    /\ pc = "sleep"
    /\ \E c \in WakeTimes(clock, Delta(cloud_sources[i], clock)) : clock' = c
    /\ pc' = "get"
    /\ UNCHANGED << entry, cloud_sources, i, images, backup, calls, call, archives,
                    interrupted, exc >>

\* get_image returns False from an except clause after delete_file(image_name)
ReturnFalse(fs, raised, step) ==
    \E d \in DeleteFile(fs, call.image_name) :
        /\ images' = d.fs
        /\ calls' = [calls EXCEPT ![Len(calls)].result = "False"]
        /\ call' = [call EXCEPT !.raised = raised, !.step = step, !.deleted = d.ret,
                                !.left = d.fs[call.image_name]]
        /\ pc' = "got"
        /\ UNCHANGED exc

\* an exception that no except clause of get_image catches leaves get_image
\* and, nothing catching it, the run
Propagate(fs, raised, step) ==
    /\ images' = fs
    /\ calls' = [calls EXCEPT ![Len(calls)].result = "raised"]
    /\ call' = [call EXCEPT !.raised = raised, !.step = step,
                            !.left = fs[call.image_name]]
    /\ pc' = "crashed"
    /\ exc' = raised

\* source.get_image() is called: image_name is set and delete_file(image_name)
\* removes what is at the path
GetImageDelete ==
    /\ pc = "get"
    /\ LET source == cloud_sources[i]
           image_name == ImageName(source)
       IN  \E d \in DeleteFile(images, image_name) :
              /\ images' = d.fs
              /\ calls' = Append(calls, [ id |-> source.id, result |-> "running",
                                          logged |-> "none" ])
              /\ call' = [ image_name |-> image_name, at |-> clock,
                           target_time |-> source.target_time,
                           before |-> images[image_name], raised |-> "none",
                           step |-> "none", deleted |-> d.ret,
                           downloaded |-> FALSE,
                           left |-> d.fs[image_name] ]
    /\ pc' = "download"
    /\ UNCHANGED << entry, clock, cloud_sources, i, backup, archives,
                    interrupted, exc >>

\* wget.download(self.url, image_name) and the except clauses of the first try.
\* call.downloaded records whether the download was written at image_name
GetImageDownload ==
    /\ pc = "download"
    /\ \E out \in Download(images, call.image_name) :
          IF out.raised = "none"
          THEN /\ images' = out.fs
               /\ call' = [call EXCEPT
                              !.downloaded = out.fs[call.image_name] = "raw"]
               /\ pc' = "crop"
               /\ UNCHANGED << calls, exc >>
          ELSE IF Handler(DownloadHandlers, out.raised) /= 0
               THEN ReturnFalse(out.fs, out.raised, "download")
               ELSE Propagate(out.fs, out.raised, "download")
    /\ UNCHANGED << entry, clock, cloud_sources, i, backup, archives, interrupted >>

\* Image.open, crop, save and the except clauses of the second try; return True
GetImageCrop ==
    /\ pc = "crop"
    /\ \E out \in CropAndSave(images, call.image_name) :
          IF out.raised = "none"
          THEN /\ images' = out.fs
               /\ calls' = [calls EXCEPT ![Len(calls)].result = "True"]
               /\ call' = [call EXCEPT !.left = out.fs[call.image_name]]
               /\ pc' = "got"
               /\ UNCHANGED exc
          ELSE IF Handler(ImageHandlers, out.raised) /= 0
               THEN ReturnFalse(out.fs, out.raised, "image")
               ELSE Propagate(out.fs, out.raised, "image")
    /\ UNCHANGED << entry, clock, cloud_sources, i, backup, archives, interrupted >>

\* of the instants, the first of each day: a read of which only .date() is used
FirstOfDay(instants) ==
    { c \in instants : \A b \in instants : Day(b) = Day(c) => c <= b }

\* one call of archive_images(): today is the date of utcnow().  What the
\* try block raises is caught by the except clause and the run goes on at
\* next; an exception that the clause does not catch ends the run
DoArchive(next) ==
    \E now \in FirstOfDay(UtcNow(ClockValues)) :
    \E out \in ArchiveImages(images, backup, Day(now)) :
        /\ clock' = now
        /\ images' = out.images
        /\ backup' = out.backup
        /\ IF out.raised = "none" \/ Handler(ArchiveHandlers, out.raised) /= 0
           THEN pc' = next /\ UNCHANGED exc
           ELSE pc' = "crashed" /\ exc' = out.raised
        /\ archives' = Append(archives,
              [ day |-> Day(now), existed |-> backup[Day(now)].exists,
                raised |-> out.raised,
                files |-> { <<p, images[p]>> : p \in Present(images) },
                moved |-> { <<p, images[p]>> : p \in Present(images) }
                            \cap out.backup[Day(now)].files,
                left |-> { <<p, images[p]>> : p \in Present(images) \cap Present(out.images) },
                after |-> i > Len(cloud_sources) \/ interrupted ])

\* the outcome that the loop logs after get_image: get_from_all_sources logs
\* "GET SUCCESSFUL" whatever get_image returned, the script tests the result
LoggedOutcome(e, result) ==
    IF e = "get_from_all_sources" THEN "GET SUCCESSFUL"
    ELSE IF result = "True" THEN "GET SUCCESSFUL" ELSE "GET FAILED"

\* the rest of one round.  get_from_all_sources logs and goes on; the script
\* calls archive_images() when get_image returned True
AfterGet ==
    /\ pc = "got"
    /\ calls' = [calls EXCEPT
                    ![Len(calls)].logged = LoggedOutcome(entry, calls[Len(calls)].result)]
    /\ IF entry = "get_sources" /\ calls[Len(calls)].result = "True"
       THEN DoArchive("loop")
       ELSE /\ pc' = "loop"
            /\ UNCHANGED << clock, images, backup, archives, exc >>
    /\ i' = i + 1
    /\ call' = NoCall
    /\ UNCHANGED << entry, cloud_sources, interrupted >>

\* the loop has no source left
LoopEnd ==
    /\ pc = "loop"
    /\ i > Len(cloud_sources)
    /\ pc' = "archive"
    /\ UNCHANGED << entry, clock, cloud_sources, i, images, backup, calls, call,
                    archives, interrupted, exc >>

\* the archive_images() call that ends both entry points
Archive ==
    /\ pc = "archive"
    /\ DoArchive("done")
    /\ UNCHANGED << entry, cloud_sources, i, calls, call, interrupted >>

\* what the path of the running get_image holds when the call is interrupted
InterruptedFile ==
    IF \/ pc = "download" /\ images[call.image_name] /= "dir"
       \/ pc = "crop" /\ images[call.image_name] \notin { "none", "dir" }
    THEN { images[call.image_name], "partial" }
    ELSE { images[call.image_name] }

\* a KeyboardInterrupt in the loop, during a wait or a fetch.  No except clause
\* of get_image catches it; the script's except KeyboardInterrupt does, and
\* get_from_all_sources has none
Interrupt ==
    /\ pc \in LoopPlaces
    /\ ~interrupted
    /\ interrupted' = TRUE
    /\ IF pc \in { "download", "crop" }
       THEN \E k \in InterruptedFile :
              /\ images' = [images EXCEPT ![call.image_name] = k]
              /\ calls' = [calls EXCEPT ![Len(calls)].result = "interrupted"]
              /\ call' = [call EXCEPT !.raised = "KeyboardInterrupt", !.left = k]
       ELSE UNCHANGED << images, calls, call >>
    /\ IF entry = "get_sources"
       THEN pc' = "archive" /\ UNCHANGED exc
       ELSE pc' = "crashed" /\ exc' = "KeyboardInterrupt"
    /\ UNCHANGED << entry, clock, cloud_sources, i, backup, archives >>

Next ==
    \/ Load
    \/ TargetTimes
    \/ Sort
    \/ LoopHead
    \/ Sleep
    \/ GetImageDelete
    \/ GetImageDownload
    \/ GetImageCrop
    \/ AfterGet
    \/ LoopEnd
    \/ Archive
    \/ Interrupt

Spec == Init /\ [][Next]_vars

\* the run has ended
Terminated == pc \in { "done", "crashed" }

\* the targets are computed and the list is sorted
Scheduled == pc \notin { "load", "target_times", "sort" } /\ exc /= "AttributeError"

\* a get_image call has just returned
Returned == pc = "got"

Result == calls[Len(calls)].result

\* the ids of a sequence of records, in order
Ids(records) == [k \in 1..Len(records) |-> records[k].id]

\* HH and MM of a time of day "HH:MM"
HH(time) == 10 * DigitValue(time[1]) + DigitValue(time[2])
MM(time) == 10 * DigitValue(time[4]) + DigitValue(time[5])

\* the time of day of the source on the day of now, with the sub-second of now:
\* now.replace(hour=HH, minute=MM, second=0)
SameDay(source) ==
    MkInstant(Day(source.now), HH(source.time), MM(source.time), 0, Micro(source.now))

\* the time of day of the source had passed when its target was computed
Passed(source) == SameDay(source) < source.now

----------------------------------------------------------------------------
(* The claims *)

\* C1: an uninterrupted run calls get_image exactly once for every scheduled
\* source, in the order of the sorted list, whatever each call returns, and
\* then archives and ends.
C1_EverySourceFetchedThenArchived ==
    (Terminated /\ ~interrupted) =>
        /\ pc = "done"
        /\ Ids(calls) = Ids(cloud_sources)
        /\ \A k \in 1..Len(calls) : calls[k].result \in { "True", "False" }
        /\ Len(archives) >= 1

\* C1 for get_from_all_sources alone (it holds there)
C1_InGetFromAllSources ==
    entry = "get_from_all_sources" => C1_EverySourceFetchedThenArchived

\* C2, as claimed: when get_image returns False no file is at its path, whether
\* or not the removal succeeded.
C2_NoFileAfterFailure ==
    (Returned /\ Result = "False") => ~Exists(images, call.image_name)

\* C2, amended: when get_image returns False, no file is at its path exactly
\* when the delete_file of the failing step returned True; when it returned
\* False what it could not remove is still there.
C2_NoFileAfterFailureIfRemoved ==
    (Returned /\ Result = "False") =>
        /\ call.raised /= "none"
        /\ call.deleted <=> ~Exists(images, call.image_name)
        /\ call.left = images[call.image_name]

\* get_image failed in the image step on a path that held a file before the
\* call, and left nothing
C2_Witness ==
    /\ Returned
    /\ Result = "False"
    /\ call.step = "image"
    /\ call.before = "stale"
    /\ call.deleted
    /\ ~Exists(images, call.image_name)

\* C3: no exception of the download step or of the image step leaves
\* get_image: each is caught and get_image returns False.
C3_NoExceptionLeavesGetImage ==
    /\ exc \notin DownloadFaults \cup ImageFaults
    /\ \A k \in 1..Len(calls) : calls[k].result /= "raised"
    /\ (Returned /\ call.raised /= "none") => Result = "False"

\* a transport fault that no named except clause catches was turned into False
C3_Witness ==
    /\ Returned
    /\ call.raised = "URLError"
    /\ call.step = "download"
    /\ Result = "False"

\* C4: get_image is never called before the target instant of its source: the
\* loop sleeps only for a positive delay, and it calls get_image, after the
\* sleep or at once, when the target is reached.
C4_NeverFetchedEarly ==
    /\ pc \in { "download", "crop", "got" } => call.at >= call.target_time
    /\ pc = "get" => clock >= cloud_sources[i].target_time
    /\ pc = "sleep" => Delta(cloud_sources[i], clock) > 0

\* the second source is fetched after its target instant had passed
C4_Witness ==
    /\ pc = "download"
    /\ Len(calls) = 2
    /\ call.at > call.target_time
    /\ calls[1].result = "False"

\* C5: set_target_time(now) stores an instant that is not before now, on the
\* day of now or the day after, with the hour and the minute of the time of
\* day and second 0 (the sub-second is that of now); the day is added exactly
\* when now.replace(hour, minute, second=0) is earlier than now.
C5_TargetTime ==
    \A k \in 1..Len(cloud_sources) :
        LET source == cloud_sources[k]
            t == source.target_time
        IN  source.now /= Unset =>
                /\ t >= source.now
                /\ Day(t) \in { Day(source.now), Day(source.now) + 1 }
                /\ Hour(t) = HH(source.time)
                /\ Minute(t) = MM(source.time)
                /\ Second(t) = 0
                /\ Micro(t) = Micro(source.now)
                /\ Day(t) = Day(source.now) + 1 <=> Passed(source)

\* a target on the day of now that is now itself, and one a day later
C5_Witness ==
    /\ Len(cloud_sources) = 2
    /\ cloud_sources[1].now /= Unset
    /\ cloud_sources[1].target_time = cloud_sources[1].now
    /\ cloud_sources[2].now /= Unset
    /\ Day(cloud_sources[2].target_time) = Day(cloud_sources[2].now) + 1

\* C6: once scheduled, the list is in non-decreasing order of target instant,
\* sources with equal targets are in the order of the config, and get_image
\* is called in the order of the list.
C6_SortedStable ==
    Scheduled =>
        /\ \A j, k \in 1..Len(cloud_sources) :
              j < k =>
                /\ cloud_sources[j].target_time <= cloud_sources[k].target_time
                /\ cloud_sources[j].target_time = cloud_sources[k].target_time
                      => cloud_sources[j].id < cloud_sources[k].id
        /\ Len(calls) <= Len(cloud_sources)
        /\ \A k \in 1..Len(calls) : calls[k].id = cloud_sources[k].id

\* two sources with equal targets were fetched
C6_Witness ==
    /\ Scheduled
    /\ Len(calls) = 2
    /\ calls[2].result = "True"
    /\ cloud_sources[1].target_time = cloud_sources[2].target_time

\* C7: the order is that of the target instants, not of the times of day: of
\* two sources whose targets were computed on the same day, one whose time of
\* day had passed then (its target is a day later) comes after one whose time
\* of day was still ahead, in the list and in the calls of get_image.
C7_OrderedByInstant ==
    Scheduled =>
        \A j, k \in 1..Len(cloud_sources) :
            LET p == cloud_sources[j]
                q == cloud_sources[k]
            IN  (Day(p.now) = Day(q.now) /\ Passed(p) /\ ~Passed(q)) =>
                    /\ q.target_time < p.target_time
                    /\ k < j
                    /\ \A n \in 1..Len(calls) :
                          calls[n].id = p.id => \E m \in 1..(n - 1) : calls[m].id = q.id

\* the scenario: "09:00" and "10:00" in the config, both targets computed at
\* 09:30 of day 0; the 10:00 source is first in the list and both were fetched
C7_Witness ==
    /\ Scheduled
    /\ Len(cloud_sources) = 2
    /\ cloud_sources[1].id = 2
    /\ HH(cloud_sources[1].time) = 10
    /\ HH(cloud_sources[2].time) = 9
    /\ cloud_sources[1].now = MkInstant(0, 9, 30, 0, 0)
    /\ cloud_sources[2].now = MkInstant(0, 9, 30, 0, 0)
    /\ cloud_sources[1].target_time = MkInstant(0, 10, 0, 0, 0)
    /\ cloud_sources[2].target_time = MkInstant(1, 9, 0, 0, 0)
    /\ Ids(calls) = << 2, 1 >>

\* C8: every target of a run is computed from one value of now, so that two
\* sources with the same time of day have the same target.
C8_OneNowForAllTargets ==
    \A j, k \in 1..Len(cloud_sources) :
        LET p == cloud_sources[j]
            q == cloud_sources[k]
        IN  (p.now /= Unset /\ q.now /= Unset) =>
                /\ p.now = q.now
                /\ p.time = q.time => p.target_time = q.target_time

\* C9: after a KeyboardInterrupt during the wait or the fetch of a source no
\* further source is fetched, archive_images is called once more, and the run
\* ends without an exception.
C9_InterruptCaught ==
    (interrupted /\ Terminated /\ i <= Len(cloud_sources)) =>
        /\ pc = "done"
        /\ exc = "none"
        /\ Len(archives) >= 1
        /\ archives[Len(archives)].after

\* C10: when archive_images has returned, every file that was in images/ at
\* the call is in the backup directory of the day and not in images/.
C10_ArchiveMovesEveryFile ==
    \A k \in 1..Len(archives) :
        /\ archives[k].moved = archives[k].files
        /\ archives[k].left = {}

\* C11: when get_image returns True, its path holds the cropped image of the
\* download of this call, never the crop of a file that was at the path
\* before the call.
C11_SuccessMeansOwnCroppedDownload ==
    (Returned /\ Result = "True") =>
        /\ images[call.image_name] = "cropped"
        /\ call.downloaded

\* C11 for the calls whose first delete_file removed what was at the path (it
\* holds there)
C11_WhenPathWasCleared ==
    call.deleted => C11_SuccessMeansOwnCroppedDownload

\* C12: delete_file on what images/ holds: it returns True exactly when
\* nothing is at the path afterwards; it returns False only for a path that
\* existed and is left as it was; on an absent path it changes nothing and
\* returns True; a second call after a True returns True and changes nothing.
C12_DeleteFileIdempotent ==
    \A path \in AllPaths :
        /\ \A d \in DeleteFile(images, path) :
              /\ d.ret <=> ~Exists(d.fs, path)
              /\ ~d.ret => (Exists(images, path) /\ d.fs = images)
              /\ \A q \in AllPaths \ { path } : d.fs[q] = images[q]
              /\ d.ret => DeleteFile(d.fs, path) = { [ ret |-> TRUE, fs |-> d.fs ] }
        /\ ~Exists(images, path) =>
              DeleteFile(images, path) = { [ ret |-> TRUE, fs |-> images ] }
        /\ pc = "download" /\ path = call.image_name =>
              (call.deleted <=> ~Exists(images, path))

\* get_image's delete_file removed a file that was at the path, and the path
\* of another source is absent
C12_Witness ==
    /\ pc = "download"
    /\ call.before = "stale"
    /\ call.deleted
    /\ ~Exists(images, call.image_name)
    /\ \E q \in AllPaths : q /= call.image_name /\ Exists(images, q)

\* the phase of the run at a place of the code
Phase(place) ==
    CASE place = "load" -> "LOADING"
      [] place \in { "target_times", "sort" } -> "SCHEDULING"
      [] place \in { "loop", "sleep" } -> "WAITING"
      [] place \in { "get", "download", "crop", "got" } -> "FETCHING"
      [] place = "archive" -> "ARCHIVING"
      [] place = "done" -> "DONE"
      [] OTHER -> "CRASHED"

\* C13: a run goes through LOADING, SCHEDULING, WAITING and FETCHING of each
\* source in turn, ARCHIVING and DONE: a run that is not interrupted ends in
\* DONE with every source fetched, and archive_images is called only after
\* the last source (or after an interrupt), never while sources are left.
C13_PhaseOrder ==
    /\ \A k \in 1..Len(archives) : archives[k].after
    /\ Phase(pc) \in { "WAITING", "FETCHING" } => archives = <<>>
    /\ (Terminated /\ ~interrupted) =>
          /\ Phase(pc) = "DONE"
          /\ Len(calls) = Len(cloud_sources)
          /\ Len(archives) = 1

\* C13 for get_from_all_sources alone (it holds there)
C13_InGetFromAllSources ==
    entry = "get_from_all_sources" => C13_PhaseOrder

\* the part of C13 about the archiver: no call of archive_images while
\* sources are left (it holds: the script does not reach its loop with a source)
C13_NoArchiveBetweenFetches ==
    /\ \A k \in 1..Len(archives) : archives[k].after
    /\ Phase(pc) \in { "WAITING", "FETCHING" } => archives = <<>>

\* the pair that tells two scheduled sources apart
Pair(source) == << source.name, source.time >>

C15_ArchiveNeverRaises ==
    /\ exc \notin ArchiveFaults
    /\ \A k \in 1..Len(archives) :
          /\ archives[k].raised \in ArchiveFaults
          /\ archives[k].existed <=> archives[k].raised = "FileExistsError"
          /\ archives[k].existed => archives[k].moved = {}
    /\ Len(archives) >= 1 => (pc /= "crashed" /\ exc = "none")
    /\ (Len(archives) >= 1 /\ entry = "get_from_all_sources") =>
          (pc = "done" /\ Len(archives) = 1)
    /\ pc = "done" => Len(archives) >= 1

\* both sources were fetched, os.makedirs failed in archive_images, and the
\* run ended normally
C15_Witness ==
    /\ pc = "done"
    /\ Len(calls) = 2
    /\ Len(archives) = 1
    /\ archives[1].raised = "FileExistsError"
    /\ archives[1].files /= {}
    /\ exc = "none"

\* C16: in both entry points the target instant of every source is set before
\* the sort and the delay computation read it.
C16_TargetSetBeforeRead ==
    /\ pc \in { "sort", "loop", "sleep" } =>
          \A k \in 1..Len(cloud_sources) : cloud_sources[k].target_time /= Unset
    /\ exc /= "AttributeError"

\* C16 for get_from_all_sources alone (it holds there)
C16_InGetFromAllSources ==
    entry = "get_from_all_sources" => C16_TargetSetBeforeRead

\* C17: every file in a backup directory is the cropped output of a get_image
\* call that returned True: no complete but uncropped download and no partly
\* written file is archived.  (A file that was in images/ before the run is
\* not counted against the claim.)
C17_OnlyCroppedArchived ==
    \A d \in Days : \A f \in backup[d].files : f[2] \notin { "raw", "partial" }

\* C18: the outcome logged for a source matches what its get_image returned:
\* success is logged only after True, and a failure is logged after False.
C18_LoggedOutcomeMatches ==
    \A k \in 1..Len(calls) :
        /\ calls[k].logged = "GET SUCCESSFUL" => calls[k].result = "True"
        /\ (calls[k].result = "False" /\ calls[k].logged /= "none") =>
              calls[k].logged = "GET FAILED"

====
